---- MODULE Spec2Model ----
(***************************************************************************)
(* totpcgi/backends/pgsql.py: the PostgreSQL state backend of totp-cgi.    *)
(*                                                                         *)
(* Every backend instance runs its calls one statement at a time on a      *)
(* psycopg2 connection.  The store is modelled at the level the code uses  *)
(* it: row versions with the connection that inserted (xmin) or deleted    *)
(* (xmax) them and has not committed yet, READ COMMITTED statement         *)
(* snapshots, session-level advisory locks with a hold count per           *)
(* connection, and a transaction that stays failed until it is ended.      *)
(***************************************************************************)
EXTENDS Naturals, FiniteSets, Bags, TLC

\* ------------------------------------------------------------------ bounds
NBackends == 2
MaxCalls == 2
MaxRemoves == 1

Backends == 1..NBackends
Connections == 1..NBackends
Usernames == {"alice", "bob"}
\* Every call can draw at most one userid from the sequence.
Userids == 1..(NBackends * MaxCalls)

VARIABLES
    conn,        \* backend -> its connection (self.conn, from db_connect)
    pc,          \* backend -> the statement it is about to run
    local,       \* backend -> the locals of the running call: user, userid,
                 \*   state, the rows a waiting DELETE targets (tgt), what the
                 \*   caller added to the loaded state (delta), and the number
                 \*   of commits of `user` when the call started (epoch)
    held,        \* backend -> username -> the GAUserState its caller holds
    locks,       \* backend -> self.locks (username -> userid, 0: no key)
    rows,        \* the tables: users, timestamps, used_scratch_tokens
    nextRid,     \* next row identity
    nextUserid,  \* the users.userid sequence
    adv,         \* connection -> key -> advisory lock hold count
    txfailed,    \* connection -> its transaction is in the failed state
    ret,         \* backend -> what its last call returned or raised
    calls,       \* backend -> calls made so far
    removes,     \* _remove_user_state calls made so far
    okCommits,   \* username -> the states of the update_user_state calls that returned
    lastCommit,  \* username -> the state of the last such call
    deltaSum,    \* username -> everything callers added in such calls
    epoch,       \* username -> number of such calls and removals
    removed,     \* username -> _remove_user_state has deleted it
    nAcq,        \* backend -> username -> get_user_state calls that returned
    nCommit      \* backend -> username -> update_user_state calls that returned

store == << rows, nextRid, nextUserid, adv, txfailed >>
history == << okCommits, lastCommit, deltaSum, epoch, removed, nAcq, nCommit >>
vars == << conn, pc, local, held, locks, store, ret, calls, removes, history >>

\* ------------------------------------------------------------- GAUserState
EmptyHistory == [succ |-> EmptyBag, fail |-> EmptyBag, tok |-> EmptyBag]

HAdd(h1, h2) == [succ |-> h1.succ (+) h2.succ,
                 fail |-> h1.fail (+) h2.fail,
                 tok  |-> h1.tok (+) h2.tok]

HSize(h) == BagCardinality(h.succ) + BagCardinality(h.fail) + BagCardinality(h.tok)

\* What one verification attempt of backend b adds to the state it loaded:
\* a success timestamp, or a failed attempt that also burns a scratch token.
Deltas(b) == { [succ |-> SetToBag({b}), fail |-> EmptyBag, tok |-> EmptyBag],
               [succ |-> EmptyBag, fail |-> SetToBag({b}), tok |-> SetToBag({b})] }

\* ------------------------------------------------------------------- store
\* A row (r.n identical copies of it) is seen by a statement of connection c
\* when its insert is committed or c's own, and c has not deleted it.
Visible(r, c) == r.xmin \in {0, c} /\ r.xmax # c

\* The row is being deleted by another connection's open transaction.
LockedByOther(r, c) == r.xmax \notin {0, c}

UsersRows(c, user) ==
    { r \in rows : r.tbl = "users" /\ r.val = user /\ Visible(r, c) }

TimestampRows(c, userid) ==
    { r \in rows : r.tbl = "timestamps" /\ r.userid = userid /\ Visible(r, c) }

TokenRows(c, userid) ==
    { r \in rows : r.tbl = "used_scratch_tokens" /\ r.userid = userid /\ Visible(r, c) }

BagOfRows(S) ==
    LET vals == { r.val : r \in S }
        Count(v) == LET RECURSIVE Sum(_)
                        Sum(T) == IF T = {} THEN 0
                                  ELSE LET x == CHOOSE y \in T : TRUE
                                       IN  x.n + Sum(T \ {x})
                    IN  Sum({ r \in S : r.val = v })
    IN  [v \in vals |-> Count(v)]

\* conn.commit(): the connection's inserts become visible to all, the rows it
\* deleted are gone.  COMMIT of a failed transaction rolls it back.
CommitRows(c) ==
    IF txfailed[c]
    THEN { IF r.xmax = c THEN [r EXCEPT !.xmax = 0] ELSE r :
             r \in { x \in rows : x.xmin # c } }
    ELSE { IF r.xmin = c THEN [r EXCEPT !.xmin = 0] ELSE r :
             r \in { x \in rows : x.xmax # c } }

\* The committed history of the identity that `user` names now.
CommittedIds(user) ==
    { r.userid : r \in { x \in rows : x.tbl = "users" /\ x.val = user /\ x.xmin = 0 } }

CommittedHistory(user) ==
    LET ids == CommittedIds(user)
        ts  == { r \in rows : r.tbl = "timestamps" /\ r.userid \in ids /\ r.xmin = 0 }
        tk  == { r \in rows : r.tbl = "used_scratch_tokens" /\ r.userid \in ids /\ r.xmin = 0 }
    IN  [succ |-> BagOfRows({ r \in ts : r.success }),
         fail |-> BagOfRows({ r \in ts : ~r.success }),
         tok  |-> BagOfRows(tk)]

\* ---------------------------------------------------------------- results
\* What a call returned or raised.  For a get_user_state that returned,
\* quiet says that no update_user_state or _remove_user_state of the user
\* committed while it ran, and last is the user's last commit before it
\* returned.
NoCommit == [kind |-> "none", state |-> EmptyHistory]

Result(op, user, err, state, userid) ==
    [op |-> op, user |-> user, err |-> err, state |-> state, userid |-> userid,
     quiet |-> FALSE, last |-> NoCommit]

NoResult == Result("none", "", "none", EmptyHistory, 0)

NoLocal == [user |-> "", userid |-> 0, state |-> EmptyHistory, tgt |-> {},
            delta |-> EmptyHistory, epoch |-> 0]

\* The state after construction, backend b having got connection cn[b] from
\* db_connect, on a database with the rows of T.
InitWith(cn, T) ==
    /\ conn = cn
    /\ pc = [b \in Backends |-> "idle"]
    /\ local = [b \in Backends |-> NoLocal]
    /\ held = [b \in Backends |-> [u \in Usernames |-> EmptyHistory]]
    /\ locks = [b \in Backends |-> [u \in Usernames |-> 0]]
    /\ rows = T
    /\ nextRid = 1 + Cardinality(T)
    /\ nextUserid = 1 + Cardinality({ r \in T : r.tbl = "users" })
    /\ adv = [c \in Connections |-> [k \in Userids |-> 0]]
    /\ txfailed = [c \in Connections |-> FALSE]
    /\ ret = [b \in Backends |-> NoResult]
    /\ calls = [b \in Backends |-> 0]
    /\ removes = 0
    /\ okCommits = [u \in Usernames |-> {}]
    /\ lastCommit = [u \in Usernames |-> NoCommit]
    /\ deltaSum = [u \in Usernames |-> EmptyHistory]
    /\ epoch = [u \in Usernames |-> 0]
    /\ removed = [u \in Usernames |-> FALSE]
    /\ nAcq = [b \in Backends |-> [u \in Usernames |-> 0]]
    /\ nCommit = [b \in Backends |-> [u \in Usernames |-> 0]]

\* Every backend in a process of its own, with its own connection, on an
\* empty database.
Init == InitWith([b \in Backends |-> b], {})

\* ------------------------------------------------------- call and return
\* The call returns or raises: its locals are gone.
Finish(b, res) ==
    /\ pc' = [pc EXCEPT ![b] = "idle"]
    /\ local' = [local EXCEPT ![b] = NoLocal]
    /\ ret' = [ret EXCEPT ![b] = res]

\* cur.execute() on a connection whose transaction has failed raises
\* (psycopg2: "current transaction is aborted"); nothing in this file ever
\* rolls back.
RaiseFailedTx(b, op) ==
    /\ Finish(b, Result(op, local[b].user, "InFailedSqlTransaction",
                        EmptyHistory, local[b].userid))
    /\ UNCHANGED << conn, held, locks, store, calls, removes, history >>

Goto(b, label) == pc' = [pc EXCEPT ![b] = label]

\* ---------------------------------------------------- pg_advisory_lock
\* pg_advisory_lock(key) returns once no other session holds key; the lock is
\* session-level and stacks: each call of the holder adds one hold.
\* Faulty variant: the lock is granted while another session holds it.
AdvisoryLockNeverWaits(c, key) == TRUE

\* Faulty variant: one lock for all keys.
AdvisoryLockGlobal(c, key) ==
    \A c2 \in Connections \ {c} : \A k \in Userids : adv[c2][k] = 0

AdvisoryLockAvailable(c, key) ==
    \A c2 \in Connections \ {c} : adv[c2][key] = 0

\* Faulty variant: the statement returns without a hold.
AdvisoryLockNotTaken(c, key) == adv

AdvisoryLock(c, key) == [adv EXCEPT ![c][key] = @ + 1]

\* pg_advisory_unlock(key) drops one hold, at once and whatever the
\* transaction does later; without a hold it only warns.
AdvisoryUnlock(c, key) ==
    [adv EXCEPT ![c][key] = IF @ > 0 THEN @ - 1 ELSE 0]

\* --------------------------------------------------------- get_user_state
\* Lines 45-55: the call, SELECT userid FROM users, and the branch on row.
GetUserState(b, user) ==
    LET c == conn[b] IN
    /\ pc[b] = "idle"
    /\ calls[b] < MaxCalls
    /\ calls' = [calls EXCEPT ![b] = @ + 1]
    /\ IF txfailed[c]
       THEN /\ Finish(b, Result("get", user, "InFailedSqlTransaction", EmptyHistory, 0))
       ELSE /\ ret' = ret
            /\ IF UsersRows(c, user) # {}
               THEN \E row \in UsersRows(c, user) :
                      /\ local' = [local EXCEPT ![b] =
                                     [NoLocal EXCEPT !.user = user,
                                                     !.userid = row.userid,
                                                     !.epoch = epoch[user]]]
                      /\ Goto(b, "g_lock")
               ELSE /\ local' = [local EXCEPT ![b] =
                                   [NoLocal EXCEPT !.user = user,
                                                   !.epoch = epoch[user]]]
                    /\ Goto(b, "g_insert")
    /\ UNCHANGED << conn, held, locks, store, removes, history >>

\* Lines 59-62: SELECT pg_advisory_lock(userid); self.locks[user] = userid.
GetLock(b) ==
    LET c == conn[b] IN
    /\ pc[b] = "g_lock"
    /\ IF txfailed[c]
       THEN RaiseFailedTx(b, "get")
       ELSE /\ AdvisoryLockAvailable(c, local[b].userid)
            /\ adv' = AdvisoryLock(c, local[b].userid)
            /\ locks' = [locks EXCEPT ![b][local[b].user] = local[b].userid]
            /\ Goto(b, "g_ts")
            /\ UNCHANGED << conn, local, held, rows, nextRid, nextUserid, txfailed,
                            ret, calls, removes, history >>

\* Lines 64-73: SELECT timestamp, success FROM timestamps, sorted by success.
LoadTimestamps(c, userid, state) ==
    [state EXCEPT !.succ = BagOfRows({ r \in TimestampRows(c, userid) : r.success }),
                  !.fail = BagOfRows({ r \in TimestampRows(c, userid) : ~r.success })]

GetTimestamps(b) ==
    LET c == conn[b] IN
    /\ pc[b] = "g_ts"
    /\ IF txfailed[c]
       THEN RaiseFailedTx(b, "get")
       ELSE /\ local' = [local EXCEPT ![b].state =
                           LoadTimestamps(c, local[b].userid, local[b].state)]
            /\ Goto(b, "g_tok")
            /\ UNCHANGED << conn, held, locks, store, ret, calls, removes, history >>

\* Lines 75-81 and 97: SELECT token FROM used_scratch_tokens; return state.
LoadTokens(c, userid, state) ==
    [state EXCEPT !.tok = BagOfRows(TokenRows(c, userid))]

ReturnState(b, state) ==
    /\ Finish(b, [Result("get", local[b].user, "none", state, local[b].userid)
                    EXCEPT !.quiet = (local[b].epoch = epoch[local[b].user]),
                           !.last = lastCommit[local[b].user]])
    /\ held' = [held EXCEPT ![b][local[b].user] = state]
    /\ nAcq' = [nAcq EXCEPT ![b][local[b].user] = @ + 1]
    /\ UNCHANGED << okCommits, lastCommit, deltaSum, epoch, removed, nCommit >>

GetTokens(b) ==
    LET c == conn[b] IN
    /\ pc[b] = "g_tok"
    /\ IF txfailed[c]
       THEN RaiseFailedTx(b, "get")
       ELSE /\ ReturnState(b, LoadTokens(c, local[b].userid, local[b].state))
            /\ UNCHANGED << conn, locks, store, calls, removes >>

\* users.username is unique: an INSERT of a username waits for the open
\* transaction that inserted or is deleting a row with it, and fails once a
\* row with it is committed.
UsernameConflicts(c, user) ==
    { r \in rows : r.tbl = "users" /\ r.val = user /\ r.xmax # c }

UsernameWait(c, user) ==
    \E r \in UsernameConflicts(c, user) : r.xmin \notin {0, c} \/ r.xmax \notin {0, c}

UsersRow(c, user, userid, rid) ==
    [rid |-> rid, tbl |-> "users", userid |-> userid, val |-> user,
     success |-> FALSE, n |-> 1, xmin |-> c, xmax |-> 0]

\* Lines 86-91: INSERT INTO users (username); SELECT userid again.
GetInsert(b) ==
    LET c == conn[b]
        user == local[b].user
    IN
    /\ pc[b] = "g_insert"
    /\ IF txfailed[c]
       THEN RaiseFailedTx(b, "get")
       ELSE /\ ~UsernameWait(c, user)
            /\ nextUserid' = nextUserid + 1
            /\ IF UsernameConflicts(c, user) # {}
               THEN /\ txfailed' = [txfailed EXCEPT ![c] = TRUE]
                    /\ Finish(b, Result("get", user, "IntegrityError", EmptyHistory, 0))
                    /\ UNCHANGED << rows, nextRid >>
               ELSE /\ rows' = rows \cup { UsersRow(c, user, nextUserid, nextRid) }
                    /\ nextRid' = nextRid + 1
                    /\ local' = [local EXCEPT ![b].userid = nextUserid]
                    /\ Goto(b, "g_lock2")
                    /\ UNCHANGED << txfailed, ret >>
            /\ UNCHANGED << conn, held, locks, adv, calls, removes, history >>

\* Lines 92-97: the lock on the new userid; the empty state is returned.
GetLockNew(b) ==
    LET c == conn[b] IN
    /\ pc[b] = "g_lock2"
    /\ IF txfailed[c]
       THEN RaiseFailedTx(b, "get")
       ELSE /\ AdvisoryLockAvailable(c, local[b].userid)
            /\ adv' = AdvisoryLock(c, local[b].userid)
            /\ locks' = [locks EXCEPT ![b][local[b].user] = local[b].userid]
            /\ ReturnState(b, local[b].state)
            /\ UNCHANGED << conn, rows, nextRid, nextUserid, txfailed, calls, removes >>

\* ------------------------------------------------------ update_user_state
\* Faulty variant: the check of self.locks is skipped.
LockAssumed(b, user) == TRUE

\* Line 102: user in self.locks.keys().
LockRecorded(b, user) == locks[b][user] # 0

\* Lines 99-107: the call, the check of self.locks, userid = self.locks[user].
\* The caller passes the state it holds for user with this attempt's delta.
UpdateUserState(b, user, delta) ==
    /\ pc[b] = "idle"
    /\ calls[b] < MaxCalls \/ LockRecorded(b, user)
    /\ calls' = [calls EXCEPT ![b] = IF LockRecorded(b, user) THEN @ ELSE @ + 1]
    /\ IF ~LockRecorded(b, user)
       THEN Finish(b, Result("update", user, "UserStateError", EmptyHistory, 0))
       ELSE /\ local' = [local EXCEPT ![b] =
                           [NoLocal EXCEPT !.user = user,
                                           !.userid = locks[b][user],
                                           !.state = HAdd(held[b][user], delta),
                                           !.delta = delta,
                                           !.epoch = epoch[user]]]
            /\ Goto(b, "u_del_ts")
            /\ ret' = ret
    /\ UNCHANGED << conn, held, locks, store, removes, history >>

\* DELETE of the rows in T by connection c.
MarkDeleted(T, c) ==
    { IF r \in T /\ r.xmax = 0 THEN [r EXCEPT !.xmax = c] ELSE r : r \in rows }

RowsOf(rids) == { r \in rows : r.rid \in rids }

\* A DELETE finds its target rows in the snapshot it starts with.  A target
\* that another open transaction is deleting makes it wait for that
\* transaction; when it resumes, the targets that are gone are skipped.
DeleteStatement(b, targets, wait, next) ==
    LET c == conn[b] IN
    IF \E r \in targets : LockedByOther(r, c)
    THEN /\ local' = [local EXCEPT ![b].tgt = { r.rid : r \in targets }]
         /\ Goto(b, wait)
         /\ rows' = rows
    ELSE /\ rows' = MarkDeleted(targets, c)
         /\ Goto(b, next)
         /\ local' = local

DeleteResume(b, next) ==
    LET c == conn[b] IN
    /\ \A r \in RowsOf(local[b].tgt) : ~LockedByOther(r, c)
    /\ rows' = MarkDeleted(RowsOf(local[b].tgt), c)
    /\ local' = [local EXCEPT ![b].tgt = {}]
    /\ Goto(b, next)

\* Line 109: DELETE FROM timestamps WHERE userid = ...
UpdateDeleteTimestamps(b) ==
    LET c == conn[b] IN
    /\ pc[b] = "u_del_ts"
    /\ IF txfailed[c]
       THEN RaiseFailedTx(b, "update")
       ELSE /\ DeleteStatement(b, TimestampRows(c, local[b].userid),
                               "u_del_ts_wait", "u_del_tok")
            /\ UNCHANGED << conn, held, locks, nextRid, nextUserid, adv, txfailed,
                            ret, calls, removes, history >>

UpdateDeleteTimestampsResume(b) ==
    /\ pc[b] = "u_del_ts_wait"
    /\ DeleteResume(b, "u_del_tok")
    /\ UNCHANGED << conn, held, locks, nextRid, nextUserid, adv, txfailed,
                    ret, calls, removes, history >>

\* Line 110: DELETE FROM used_scratch_tokens WHERE userid = ...
UpdateDeleteTokens(b) ==
    LET c == conn[b] IN
    /\ pc[b] = "u_del_tok"
    /\ IF txfailed[c]
       THEN RaiseFailedTx(b, "update")
       ELSE /\ DeleteStatement(b, TokenRows(c, local[b].userid),
                               "u_del_tok_wait", "u_insert")
            /\ UNCHANGED << conn, held, locks, nextRid, nextUserid, adv, txfailed,
                            ret, calls, removes, history >>

UpdateDeleteTokensResume(b) ==
    /\ pc[b] = "u_del_tok_wait"
    /\ DeleteResume(b, "u_insert")
    /\ UNCHANGED << conn, held, locks, nextRid, nextUserid, adv, txfailed,
                    ret, calls, removes, history >>

\* Lines 112-125: one row per element of the three lists of state (n copies
\* of a value that occurs n times), rows of one call sharing its rid.
StateRows(c, userid, state, rid) ==
    { [rid |-> rid, tbl |-> "timestamps", userid |-> userid, val |-> v,
       success |-> FALSE, n |-> state.fail[v], xmin |-> c, xmax |-> 0] :
         v \in DOMAIN state.fail }
    \cup
    { [rid |-> rid, tbl |-> "timestamps", userid |-> userid, val |-> v,
       success |-> TRUE, n |-> state.succ[v], xmin |-> c, xmax |-> 0] :
         v \in DOMAIN state.succ }
    \cup
    { [rid |-> rid, tbl |-> "used_scratch_tokens", userid |-> userid, val |-> v,
       success |-> FALSE, n |-> state.tok[v], xmin |-> c, xmax |-> 0] :
         v \in DOMAIN state.tok }

\* timestamps.userid and used_scratch_tokens.userid reference users.userid:
\* an INSERT needs the users row, and waits for an open transaction that is
\* deleting it.
ParentRows(c, userid) ==
    { r \in rows : r.tbl = "users" /\ r.userid = userid /\ Visible(r, c) }

UpdateInsert(b) ==
    LET c == conn[b]
        userid == local[b].userid
    IN
    /\ pc[b] = "u_insert"
    /\ IF txfailed[c]
       THEN RaiseFailedTx(b, "update")
       ELSE IF HSize(local[b].state) = 0
       THEN /\ Goto(b, "u_unlock")
            /\ UNCHANGED << conn, local, held, locks, store, ret, calls, removes, history >>
       ELSE IF ParentRows(c, userid) = {}
       THEN /\ txfailed' = [txfailed EXCEPT ![c] = TRUE]
            /\ Finish(b, Result("update", local[b].user, "IntegrityError",
                                EmptyHistory, userid))
            /\ UNCHANGED << conn, held, locks, rows, nextRid, nextUserid, adv,
                            calls, removes, history >>
       ELSE /\ \A r \in ParentRows(c, userid) : ~LockedByOther(r, c)
            /\ rows' = rows \cup StateRows(c, userid, local[b].state, nextRid)
            /\ nextRid' = nextRid + 1
            /\ Goto(b, "u_unlock")
            /\ UNCHANGED << conn, local, held, locks, nextUserid, adv, txfailed,
                            ret, calls, removes, history >>

\* Lines 127-128: SELECT pg_advisory_unlock(userid).
UpdateUnlock(b) ==
    LET c == conn[b] IN
    /\ pc[b] = "u_unlock"
    /\ IF txfailed[c]
       THEN RaiseFailedTx(b, "update")
       ELSE /\ adv' = AdvisoryUnlock(c, local[b].userid)
            /\ Goto(b, "u_commit")
            /\ UNCHANGED << conn, local, held, locks, rows, nextRid, nextUserid,
                            txfailed, ret, calls, removes, history >>

\* Faulty variant: the key stays in self.locks.
LockKept(b, user) == locks

\* Line 132: del self.locks[user].
ForgetLock(b, user) == [locks EXCEPT ![b][user] = 0]

\* Lines 130-132: self.conn.commit(); del self.locks[user]; the call returns.
UpdateCommit(b) ==
    LET c == conn[b]
        user == local[b].user
    IN
    /\ pc[b] = "u_commit"
    /\ rows' = CommitRows(c)
    /\ txfailed' = [txfailed EXCEPT ![c] = FALSE]
    /\ locks' = ForgetLock(b, user)
    /\ held' = [held EXCEPT ![b][user] = EmptyHistory]
    /\ Finish(b, Result("update", user, "none", local[b].state, local[b].userid))
    /\ nCommit' = [nCommit EXCEPT ![b][user] = @ + 1]
    /\ IF txfailed[c]
       THEN UNCHANGED << okCommits, lastCommit, deltaSum, epoch >>
       ELSE /\ okCommits' = [okCommits EXCEPT ![user] = @ \cup {local[b].state}]
            /\ lastCommit' = [lastCommit EXCEPT ![user] =
                                [kind |-> "commit", state |-> local[b].state]]
            /\ deltaSum' = [deltaSum EXCEPT ![user] = HAdd(@, local[b].delta)]
            /\ epoch' = [epoch EXCEPT ![user] = @ + 1]
    /\ UNCHANGED << conn, nextRid, nextUserid, adv, calls, removes, removed, nAcq >>

\* ------------------------------------------------------ _remove_user_state
\* The rows that reference the users rows in T and that c sees.
ChildRows(T, c) ==
    { r \in rows : /\ r.tbl # "users"
                   /\ r.userid \in { p.userid : p \in T }
                   /\ Visible(r, c) }

\* A users row is locked against deletion by an open transaction that is
\* deleting it or has inserted rows that reference it; the cascade waits for
\* an open transaction that is deleting a referencing row.
RemoveBlocked(T, c) ==
    \/ \E r \in T \cup ChildRows(T, c) : LockedByOther(r, c)
    \/ \E r \in rows : /\ r.tbl # "users"
                       /\ r.userid \in { p.userid : p \in T }
                       /\ r.xmin \notin {0, c}

\* DELETE FROM users cascades to the rows that reference the deleted rows.
CascadeDelete(T, c) ==
    LET live == { r \in T : r.xmax = 0 }
    IN  MarkDeleted(live \cup ChildRows(live, c), c)

\* Lines 134-139: the call and DELETE FROM users WHERE username = ...
RemoveUserState(b, user) ==
    LET c == conn[b]
        targets == UsersRows(c, user)
    IN
    /\ pc[b] = "idle"
    /\ calls[b] < MaxCalls
    /\ removes < MaxRemoves
    /\ calls' = [calls EXCEPT ![b] = @ + 1]
    /\ removes' = removes + 1
    /\ IF txfailed[c]
       THEN /\ Finish(b, Result("remove", user, "InFailedSqlTransaction", EmptyHistory, 0))
            /\ rows' = rows
       ELSE /\ ret' = ret
            /\ IF RemoveBlocked(targets, c)
               THEN /\ local' = [local EXCEPT ![b] =
                                   [NoLocal EXCEPT !.user = user,
                                                   !.tgt = { r.rid : r \in targets }]]
                    /\ Goto(b, "r_wait")
                    /\ rows' = rows
               ELSE /\ rows' = CascadeDelete(targets, c)
                    /\ local' = [local EXCEPT ![b] = [NoLocal EXCEPT !.user = user]]
                    /\ Goto(b, "r_commit")
    /\ UNCHANGED << conn, held, locks, nextRid, nextUserid, adv, txfailed, history >>

RemoveResume(b) ==
    LET c == conn[b]
        targets == { r \in RowsOf(local[b].tgt) : r.tbl = "users" }
    IN
    /\ pc[b] = "r_wait"
    /\ ~RemoveBlocked(targets, c)
    /\ rows' = CascadeDelete(targets, c)
    /\ local' = [local EXCEPT ![b].tgt = {}]
    /\ Goto(b, "r_commit")
    /\ UNCHANGED << conn, held, locks, nextRid, nextUserid, adv, txfailed, ret,
                    calls, removes, history >>

\* Line 140: self.conn.commit().
RemoveCommit(b) ==
    LET c == conn[b]
        user == local[b].user
    IN
    /\ pc[b] = "r_commit"
    /\ rows' = CommitRows(c)
    /\ txfailed' = [txfailed EXCEPT ![c] = FALSE]
    /\ Finish(b, Result("remove", user, "none", EmptyHistory, 0))
    /\ removed' = [removed EXCEPT ![user] = TRUE]
    /\ epoch' = [epoch EXCEPT ![user] = @ + 1]
    /\ lastCommit' = [lastCommit EXCEPT ![user] =
                        [kind |-> "remove", state |-> EmptyHistory]]
    /\ UNCHANGED << conn, held, locks, nextRid, nextUserid, adv, calls, removes,
                    okCommits, deltaSum, nAcq, nCommit >>

\* ------------------------------------------------------------ the system
\* One statement of backend b, its calls being made for the usernames in U.
StepOn(b, U) ==
    \/ \E user \in U : GetUserState(b, user)
    \/ GetLock(b)
    \/ GetTimestamps(b)
    \/ GetTokens(b)
    \/ GetInsert(b)
    \/ GetLockNew(b)
    \/ \E user \in U : \E delta \in Deltas(b) : UpdateUserState(b, user, delta)
    \/ UpdateDeleteTimestamps(b)
    \/ UpdateDeleteTimestampsResume(b)
    \/ UpdateDeleteTokens(b)
    \/ UpdateDeleteTokensResume(b)
    \/ UpdateInsert(b)
    \/ UpdateUnlock(b)
    \/ UpdateCommit(b)
    \/ \E user \in U : RemoveUserState(b, user)
    \/ RemoveResume(b)
    \/ RemoveCommit(b)

Next == \E b \in Backends : StepOn(b, Usernames)

Spec == Init /\ [][Next]_vars

\* The caller of backend b gives up the attempt for which get_user_state
\* returned: it makes no further call.  Nothing in this file runs then: the
\* connection stays in dbconn (lines 26-33), open, with its locks and its
\* transaction.
Abandon(b) ==
    /\ pc[b] = "idle"
    /\ \E u \in Usernames : locks[b][u] # 0
    /\ pc' = [pc EXCEPT ![b] = "stopped"]
    /\ UNCHANGED << conn, local, held, locks, store, ret, calls, removes, history >>

\* Sessions that all work on one username, any of which may abandon an
\* attempt.  Every session that can run a statement eventually runs one.
FairUsernames == {"alice"}

NextFair == \E b \in Backends : StepOn(b, FairUsernames) \/ Abandon(b)

FairSpec ==
    /\ Init
    /\ [][NextFair]_vars
    /\ \A b \in Backends : WF_vars(StepOn(b, FairUsernames))

\* Sessions that all work on one username and never abandon an attempt: a
\* session that holds a key in self.locks can always call update_user_state,
\* and every session that can run a statement eventually runs one.
NextLive == \E b \in Backends : StepOn(b, FairUsernames)

LiveSpec ==
    /\ Init
    /\ [][NextLive]_vars
    /\ \A b \in Backends : WF_vars(StepOn(b, FairUsernames))

\* ---------------------------------------- GASecretBackend, GAPincodeBackend
\* A nullable column holds {} (NULL) or {v}.
ValueOf(o) == IF o = {} THEN 0 ELSE CHOOSE v \in o : TRUE

\* SELECT s.secret, ... FROM secrets AS s JOIN users AS u USING (userid)
\* WHERE u.username = user: and the same join for the other two tables.
JoinedRows(c, tbl, user) ==
    { r \in rows : /\ r.tbl = tbl
                   /\ Visible(r, c)
                   /\ \E u \in UsersRows(c, user) : u.userid = r.userid }

\* Faulty variant: one non-null component is enough.
RateLimitEither(times, seconds) ==
    IF times # {} \/ seconds # {}
    THEN { << ValueOf(times), ValueOf(seconds) >> }
    ELSE {}

\* Lines 171-172: gaus.rate_limit is set when both components are not None.
RateLimit(times, seconds) ==
    IF times # {} /\ seconds # {}
    THEN { << ValueOf(times), ValueOf(seconds) >> }
    ELSE {}

\* Lines 174-175: gaus.window_size is set when window_size is not None.
WindowSize(window) == IF window # {} THEN { ValueOf(window) } ELSE {}

\* Lines 168-175: the GAUserSecret built from the row; a field that was not
\* set is {} here.
GAUserSecret(val) ==
    [secret |-> val.secret,
     rate_limit |-> RateLimit(val.times, val.seconds),
     window_size |-> WindowSize(val.window),
     scratch_tokens |-> EmptyBag]

\* Lines 150-175: the call, the SELECT on secrets, UserNotFound or gaus.
GetUserSecret(b, user) ==
    LET c == conn[b] IN
    /\ pc[b] = "idle"
    /\ calls[b] < MaxCalls
    /\ calls' = [calls EXCEPT ![b] = @ + 1]
    /\ IF txfailed[c]
       THEN Finish(b, Result("secret", user, "InFailedSqlTransaction", EmptyHistory, 0))
       ELSE IF JoinedRows(c, "secrets", user) = {}
       THEN Finish(b, Result("secret", user, "UserNotFound", EmptyHistory, 0))
       ELSE \E row \in JoinedRows(c, "secrets", user) :
              /\ local' = [local EXCEPT ![b] =
                             [NoLocal EXCEPT !.user = user,
                                             !.state = GAUserSecret(row.val)]]
              /\ Goto(b, "s_tok")
              /\ ret' = ret
    /\ UNCHANGED << conn, held, locks, store, removes, history >>

\* Lines 177-188: the SELECT on scratch_tokens; return gaus.
GetScratchTokens(b) ==
    LET c == conn[b] IN
    /\ pc[b] = "s_tok"
    /\ Finish(b, Result("secret", local[b].user, "none",
                        [local[b].state EXCEPT !.scratch_tokens =
                            BagOfRows(JoinedRows(c, "scratch_tokens", local[b].user))],
                        0))
    /\ UNCHANGED << conn, held, locks, store, calls, removes, history >>

\* The hash verifier of the base class, which this file only calls: a
\* pincode verifies against its own hash.
HashOf(pincode) == pincode + 100

VerifyByHashcode(pincode, hashcode) == hashcode = HashOf(pincode)

Pincodes == {1, 2}

\* Lines 199-217: the SELECT on pincodes, UserPincodeError or the verifier's
\* result.
VerifyUserPincode(b, user, pincode) ==
    LET c == conn[b] IN
    /\ pc[b] = "idle"
    /\ calls[b] < MaxCalls
    /\ calls' = [calls EXCEPT ![b] = @ + 1]
    /\ IF txfailed[c]
       THEN Finish(b, Result("pincode", user, "InFailedSqlTransaction", EmptyHistory, 0))
       ELSE IF JoinedRows(c, "pincodes", user) = {}
       THEN Finish(b, Result("pincode", user, "UserPincodeError", EmptyHistory, 0))
       ELSE \E row \in JoinedRows(c, "pincodes", user) :
              Finish(b, Result("pincode", user, "none",
                               [verified |-> VerifyByHashcode(pincode, row.val)], 0))
    /\ UNCHANGED << conn, held, locks, store, removes, history >>

\* The database as provisioned for alice before the backends start: no
\* identity; an identity alone or with a pincode; or an identity with a
\* pincode, a scratch token and a secret whose optional columns are each
\* NULL or set.
ProvisionedRow(rid, tbl, val) ==
    [rid |-> rid, tbl |-> tbl, userid |-> 1, val |-> val,
     success |-> FALSE, n |-> 1, xmin |-> 0, xmax |-> 0]

SecretValues ==
    { [secret |-> "S", times |-> t, seconds |-> s, window |-> w] :
        t \in {{}, {3}}, s \in {{}, {30}}, w \in {{}, {5}} }

Provisioned ==
    LET user == ProvisionedRow(1, "users", "alice")
        pin  == ProvisionedRow(2, "pincodes", HashOf(1))
        tok  == ProvisionedRow(3, "scratch_tokens", 7)
    IN  { {}, {user}, {user, pin} }
        \cup { {user, pin, tok, ProvisionedRow(4, "secrets", v)} : v \in SecretValues }

InitSecret == \E T \in Provisioned : InitWith([b \in Backends |-> b], T)

\* The three backends of a process share its connection (lines 41, 148, 197).
StepSecret(b) ==
    \/ StepOn(b, FairUsernames)
    \/ \E user \in FairUsernames : GetUserSecret(b, user)
    \/ GetScratchTokens(b)
    \/ \E user \in FairUsernames : \E pincode \in Pincodes :
          VerifyUserPincode(b, user, pincode)

NextSecret == \E b \in Backends : StepSecret(b)

SecretSpec == InitSecret /\ [][NextSecret]_vars

\* The backends are instances in one process: db_connect (lines 29-33) hands
\* them the same connection for the same connect string, so they share one
\* session, one transaction and one set of advisory lock holds, while each
\* has its own self.locks.  No statement of theirs waits for the other.
\* Their calls are all for one username.
InitShared == InitWith([b \in Backends |-> 1], {})

StepShared(b) ==
    \/ \E user \in FairUsernames : GetUserState(b, user)
    \/ GetLock(b)
    \/ GetTimestamps(b)
    \/ GetTokens(b)
    \/ GetInsert(b)
    \/ GetLockNew(b)
    \/ \E user \in FairUsernames : \E delta \in Deltas(b) : UpdateUserState(b, user, delta)
    \/ UpdateDeleteTimestamps(b)
    \/ UpdateDeleteTokens(b)
    \/ UpdateInsert(b)
    \/ UpdateUnlock(b)
    \/ UpdateCommit(b)
    \/ \E user \in FairUsernames : RemoveUserState(b, user)
    \/ RemoveCommit(b)

NextShared == \E b \in Backends : StepShared(b)

SharedSpec == InitShared /\ [][NextShared]_vars

\* ------------------------------------------------------------------ claims
\* Every backend is between calls and has committed what it acquired.
AllDone ==
    \A b \in Backends : pc[b] = "idle" /\ \A u \in Usernames : locks[b][u] = 0

GotState(b) == ret[b].op = "get" /\ ret[b].err = "none"

\* C1: when every session has finished its acquire/commit pairs on a username
\* (and no session ever removed a user), the committed history of the
\* username is the initial, empty history with every committed session's
\* delta applied: no delta is lost and none is applied twice.
C1_NoLostUpdate ==
    \A u \in Usernames :
        (AllDone /\ removes = 0) => CommittedHistory(u) = deltaSum[u]

\* Session b is between the lock step of get_user_state and the unlock step
\* of update_user_state for userid.
Critical(b, userid) ==
    \E u \in Usernames :
        /\ locks[b][u] = userid
        /\ ~(pc[b] = "u_commit" /\ local[b].user = u)

\* C2: at most one store session holds the advisory lock of a user
\* identifier, and no two store sessions are at the same time between their
\* acquire and the unlock of their commit for the same user identifier.
C2_MutualExclusion ==
    \A userid \in Userids :
        /\ \A c1, c2 \in Connections :
               (adv[c1][userid] > 0 /\ adv[c2][userid] > 0) => c1 = c2
        /\ \A b1, b2 \in Backends :
               (conn[b1] # conn[b2] /\ Critical(b1, userid)) => ~Critical(b2, userid)

\* One session is in its critical section while another waits for the lock.
C2_Witness ==
    \E b1, b2 \in Backends :
        /\ conn[b1] # conn[b2]
        /\ pc[b1] = "idle" /\ GotState(b1)
        /\ Critical(b1, ret[b1].userid)
        /\ pc[b2] = "g_lock" /\ local[b2].userid = ret[b1].userid

\* C3: a session that is about to read timestamps or used_scratch_tokens
\* rows of a userid holds the advisory lock of that userid, and so does a
\* session to which get_user_state has just returned a state, on the
\* existing-user path and on the new-user path.
C3_ReadsUnderLock ==
    \A b \in Backends :
        /\ pc[b] \in {"g_ts", "g_tok"} => adv[conn[b]][local[b].userid] > 0
        /\ (pc[b] = "idle" /\ GotState(b)) => adv[conn[b]][ret[b].userid] > 0

\* One session has read timestamps rows on the existing-user path; another
\* was returned the empty state of a username that was never committed.
C3_Witness ==
    /\ \E b \in Backends :
          pc[b] = "g_tok" /\ local[b].state # EmptyHistory
    /\ \E b \in Backends :
          /\ pc[b] = "idle" /\ GotState(b)
          /\ ret[b].last.kind = "none" /\ ret[b].state = EmptyHistory

\* C4: without removals, every state get_user_state returns for a username
\* is empty or is the state argument of one update_user_state of that
\* username that had returned before.
C4_NoPartialHistory ==
    \A b \in Backends :
        (GotState(b) /\ removes = 0) =>
            \/ ret[b].state = EmptyHistory
            \/ ret[b].state \in okCommits[ret[b].user]

\* C5: update_user_state(user, ...) of a backend whose self.locks has no key
\* user raises UserStateError and changes nothing: not the tables, not the
\* advisory locks, not the transaction, not self.locks.
C5_CommitWithoutLock ==
    [][ \A b \in Backends : \A u \in Usernames :
          ( /\ locks[b][u] = 0
            /\ \E delta \in Deltas(b) : UpdateUserState(b, u, delta) )
          => /\ ret'[b].op = "update" /\ ret'[b].err = "UserStateError"
             /\ pc'[b] = "idle"
             /\ UNCHANGED << store, locks, held >> ]_vars

\* A commit without a lock was refused while another session had rows and a lock.
C5_Witness ==
    \E b \in Backends :
        /\ ret[b].op = "update" /\ ret[b].err = "UserStateError"
        /\ rows # {}
        /\ \E c \in Connections : \E k \in Userids : adv[c][k] > 0

\* C6: after update_user_state(user, ...) returned, user is no key of
\* self.locks, and a backend never has more update_user_state calls that
\* returned than get_user_state calls that returned, for any username.
C6_OneCommitPerAcquire ==
    \A b \in Backends :
        /\ \A u \in Usernames : nCommit[b][u] <= nAcq[b][u]
        /\ (pc[b] = "idle" /\ ret[b].op = "update" /\ ret[b].err = "none")
               => locks[b][ret[b].user] = 0

\* A second commit after one acquire and one commit was refused.
C6_Witness ==
    \E b \in Backends :
        /\ ret[b].op = "update" /\ ret[b].err = "UserStateError"
        /\ nCommit[b][ret[b].user] = 1
        /\ nAcq[b][ret[b].user] = 1

\* C7: without removals, a get_user_state(user) during which no commit of
\* user happened, and before which update_user_state(user, h) was the last
\* to commit, returns exactly h, and the lock is held by its session while
\* self.locks has the key.
C7_RoundTrip ==
    \A b \in Backends :
        (GotState(b) /\ ret[b].quiet /\ ret[b].last.kind = "commit" /\ removes = 0) =>
            /\ ret[b].state = ret[b].last.state
            /\ (pc[b] = "idle" /\ locks[b][ret[b].user] = ret[b].userid)
                   => adv[conn[b]][ret[b].userid] > 0

\* C8: without removals, no session sees more than one identity record of a
\* username, and a get_user_state that found no identity for its username
\* returns (an empty state, under the lock) instead of failing on the INSERT.
C8_FirstSight ==
    removes = 0 =>
        /\ \A u \in Usernames : \A c \in Connections :
               Cardinality(UsersRows(c, u)) <= 1
        /\ \A b \in Backends :
               ret[b].op = "get" => ret[b].err # "IntegrityError"

\* C9: without removals, after update_user_state failed at a statement past
\* the check of self.locks, its session no longer holds the advisory lock of
\* the userid (the half of the claim that says the lock is still released).
C9_FailedCommitReleases ==
    \A b \in Backends :
        ( /\ removes = 0
          /\ pc[b] = "idle"
          /\ ret[b].op = "update"
          /\ ret[b].err \notin {"none", "UserStateError"} )
        => adv[conn[b]][ret[b].userid] = 0

\* C10: a session that waits for the advisory lock of a userid that is held
\* by a session whose caller has abandoned its attempt eventually gets past
\* the wait.
C10_AbandonedLockReleased ==
    \A b \in Backends :
        ( /\ pc[b] = "g_lock"
          /\ \E b2 \in Backends :
                pc[b2] = "stopped" /\ adv[conn[b2]][local[b].userid] > 0 )
        ~> (pc[b] # "g_lock")

\* Backend b holds the advisory lock of an identity of username u.
HoldsLockOf(b, u) ==
    \/ locks[b][u] # 0 /\ adv[conn[b]][locks[b][u]] > 0
    \/ \E r \in rows : r.tbl = "users" /\ r.val = u /\ adv[conn[b]][r.userid] > 0

\* Backend b holds the lock of u or is inside a call for u.
OperatesOn(b, u) ==
    \/ HoldsLockOf(b, u)
    \/ pc[b] \notin {"idle", "stopped"} /\ local[b].user = u

\* get_user_state of backend b cannot run its next statement now.
GetWaits(b) ==
    \/ /\ pc[b] \in {"g_lock", "g_lock2"}
       /\ ~AdvisoryLockAvailable(conn[b], local[b].userid)
    \/ /\ pc[b] = "g_insert"
       /\ UsernameWait(conn[b], local[b].user)

\* C11: without removals, a get_user_state(u) that waits while another
\* session holds the lock of u eventually returns a state (it waits instead
\* of failing), every holder being able to call update_user_state.
C11_WaiterProceeds ==
    \A b \in Backends :
        ( /\ removes = 0
          /\ GetWaits(b)
          /\ \E b2 \in Backends \ {b} : HoldsLockOf(b2, local[b].user) )
        ~> ( \/ pc[b] = "idle" /\ GotState(b)
             \/ removes > 0 )

\* C12: without removals, a get_user_state(u) waits only while another
\* session holds the lock of u or is inside a call for u: a session that
\* only holds locks of other usernames never makes it wait.
C12_OtherUsersDoNotBlock ==
    \A b \in Backends :
        (removes = 0 /\ GetWaits(b)) =>
            \E b2 \in Backends :
                conn[b2] # conn[b] /\ OperatesOn(b2, local[b].user)

\* One session holds only the lock of bob while another has passed the lock
\* step of get_user_state(alice).
C12_Witness ==
    \E b, b2 \in Backends :
        /\ removes = 0
        /\ pc[b] = "g_ts" /\ local[b].user = "alice"
        /\ pc[b2] = "idle"
        /\ HoldsLockOf(b2, "bob") /\ ~HoldsLockOf(b2, "alice")

\* The used scratch tokens in the committed history of username u.
CommittedTokens(u) == BagToSet(CommittedHistory(u).tok)

\* C13: without removals, a token in the committed used_scratch_tokens of a
\* username stays in them at every later step (callers only add to what
\* they loaded).
C13_TokensMonotone ==
    [][ removes' = 0 =>
          \A u \in Usernames : CommittedTokens(u) \subseteq CommittedTokens(u)' ]_vars

\* C14: without removals, update_user_state never waits: none of its
\* DELETE statements is made to wait by another session's transaction, and
\* its INSERTs do not wait either.
C14_OnlyAcquireBlocks ==
    \A b \in Backends :
        removes = 0 =>
            /\ pc[b] \notin {"u_del_ts_wait", "u_del_tok_wait"}
            /\ pc[b] = "u_insert" =>
                  \A r \in ParentRows(conn[b], local[b].userid) :
                      ~LockedByOther(r, conn[b])

\* C18: once update_user_state(u, ...) has returned, its session holds no
\* advisory lock on the userid of u, whatever calls came before.
C18_NoHoldAfterCommit ==
    \A b \in Backends :
        (pc[b] = "idle" /\ ret[b].op = "update" /\ ret[b].err = "none")
            => adv[conn[b]][ret[b].userid] = 0

\* C20: between calls, u is a key of self.locks exactly when the session
\* holds the advisory lock of the userid of u, and the mapped userid is the
\* one the users table has for u.
C20_LockMapConsistent ==
    \A b \in Backends : \A u \in Usernames :
        pc[b] = "idle" =>
            /\ locks[b][u] # 0 =>
                  /\ adv[conn[b]][locks[b][u]] > 0
                  /\ locks[b][u] \in { r.userid : r \in UsersRows(conn[b], u) }
            /\ locks[b][u] = 0 =>
                  \A r \in UsersRows(conn[b], u) : adv[conn[b]][r.userid] = 0

\* C19: two backend instances that share one connection are never both
\* between the lock step of get_user_state and the unlock step of
\* update_user_state for the same userid.
C19_SharedConnectionSerializes ==
    \A b1, b2 \in Backends : \A userid \in Userids :
        (b1 # b2 /\ conn[b1] = conn[b2] /\ Critical(b1, userid))
            => ~Critical(b2, userid)

\* C15: a get_user_secret(u) called when no secrets row is joined to a users
\* row of u, or after _remove_user_state(u) has committed, raises
\* UserNotFound.
C15_SecretNotFound ==
    [][ \A b \in Backends : \A u \in FairUsernames :
          ( /\ GetUserSecret(b, u)
            /\ JoinedRows(conn[b], "secrets", u) = {} \/ removed[u] )
          => /\ ret'[b].op = "secret"
             /\ ret'[b].err = "UserNotFound" ]_vars

\* C16: the GAUserSecret that get_user_secret builds has rate_limit set
\* exactly when rate_limit_times and rate_limit_seconds are both not NULL,
\* and then to the stored pair, and window_size set exactly when window_size
\* is not NULL; the call returns them as built.
C16_RateLimitPresence ==
    [][ \A b \in Backends :
          /\ \A u \in FairUsernames :
                (GetUserSecret(b, u) /\ pc'[b] = "s_tok") =>
                    \E row \in JoinedRows(conn[b], "secrets", u) :
                        LET gaus == local'[b].state
                            v == row.val
                        IN  /\ gaus.rate_limit # {} <=> (v.times # {} /\ v.seconds # {})
                            /\ gaus.rate_limit # {} =>
                                  gaus.rate_limit = { << ValueOf(v.times), ValueOf(v.seconds) >> }
                            /\ gaus.window_size = v.window
          /\ GetScratchTokens(b) =>
                /\ ret'[b].err = "none"
                /\ ret'[b].state.rate_limit = local[b].state.rate_limit
                /\ ret'[b].state.window_size = local[b].state.window_size ]_vars

\* A secret was returned without rate_limit from a row with only one of the
\* two components set.
C16_Witness ==
    \E b \in Backends :
        /\ ret[b].op = "secret" /\ ret[b].err = "none"
        /\ ret[b].state.rate_limit = {}
        /\ \E r \in rows : /\ r.tbl = "secrets"
                            /\ r.val.times = {} /\ r.val.seconds # {}

\* C17: verify_user_pincode(u, pincode) raises UserPincodeError when no
\* pincodes row is joined to a users row of u, returns what the verifier says
\* of pincode and the stored hash when there is one, and changes nothing in
\* the store.
C17_PincodeLookup ==
    [][ \A b \in Backends : \A u \in FairUsernames : \A pincode \in Pincodes :
          VerifyUserPincode(b, u, pincode) =>
            /\ ret'[b].op = "pincode"
            /\ IF JoinedRows(conn[b], "pincodes", u) = {}
               THEN ret'[b].err = "UserPincodeError"
               ELSE /\ ret'[b].err = "none"
                    /\ \E row \in JoinedRows(conn[b], "pincodes", u) :
                          ret'[b].state.verified = VerifyByHashcode(pincode, row.val)
            /\ UNCHANGED << store, locks, held >> ]_vars

====
